---- MODULE Spec2Model ----
(***************************************************************************)
(* Model of package buffergenerics (read.go, errors.go): the generic       *)
(* fixed-width decoder ReadOrderedT and its wrappers MustReadOrderedT,     *)
(* ReadT and MustReadT.                                                    *)
(*                                                                         *)
(* Representation.                                                         *)
(*  - A byte is a number in 0..255; a buffer is a sequence of bytes        *)
(*    (TLA+ sequences are 1-based: Go's buffer[i] is buffer[i+1]).         *)
(*  - A type parameter T is represented by its reflect.Kind, written as    *)
(*    Kind.String() prints it; a named type (type myType int32) has the    *)
(*    kind of its underlying type and takes the same path.                 *)
(*  - A decoded value is [kind, bits]: bits is the value's bit pattern as  *)
(*    base-256 digits, least significant first (bits[j] has weight         *)
(*    256^(j-1)).  64-bit magnitudes do not fit a model integer, so the    *)
(*    pattern is kept; ValueOf gives the number of a 1- or 2-byte value.   *)
(*  - A Go int (the offset) is [base, d]: "zero" is the number d, "max"    *)
(*    is MaxInt + d (d <= 0) and "min" is MinInt + d (d >= 0), where       *)
(*    MaxInt = 2^(w-1) - 1 for the platform's int width w.  Addition       *)
(*    wraps at MaxInt as Go's int addition does.                           *)
(*  - The build target is part of the state: ptrBits is the width of int,  *)
(*    uint and uintptr, nativeLE says whether the host is little-endian.   *)
(***************************************************************************)
EXTENDS Integers, Sequences, FiniteSets, TLC

VARIABLES ptrBits, nativeLE, T, buffer, offset, order, want, call, ret

vars == <<ptrBits, nativeLE, T, buffer, offset, order, want, call, ret>>

----------------------------------------------------------------------------
(* Bounds of the checked input space *)

\* longest buffer drawn
MaxLen == 10
\* number of start positions on Tape a buffer is cut from
MaxStart == 3
\* most negative offset drawn is -MaxNeg
MaxNeg == 2
\* offsets MaxInt-MaxBack .. MaxInt are drawn
MaxBack == 8
\* longest padding in front of an encoded value (round-trip inputs)
MaxPad == 2

\* bytes the buffers are cut from: 12 34 DE AD CA FE 80 00 FF 7F 01 56
Tape == <<18, 52, 222, 173, 202, 254, 128, 0, 255, 127, 1, 86>>

Min(a, b) == IF a < b THEN a ELSE b

Buffers ==
  UNION {{SubSeq(Tape, s, s + n - 1) : n \in 0..Min(MaxLen, Len(Tape) + 1 - s)} :
           s \in 1..Min(MaxStart, Len(Tape))}

----------------------------------------------------------------------------
(* Types admitted by constraints.Integer | constraints.Float *)

SignedKinds == {"int8", "int16", "int32", "int64", "int"}
UnsignedKinds == {"uint8", "uint16", "uint32", "uint64", "uint", "uintptr"}
FloatKinds == {"float32", "float64"}
Kinds == SignedKinds \cup UnsignedKinds \cup FloatKinds

\* reflect.Type.Bits()
Bits(kind) ==
  CASE kind \in {"int8", "uint8"} -> 8
    [] kind \in {"int16", "uint16"} -> 16
    [] kind \in {"int32", "uint32", "float32"} -> 32
    [] kind \in {"int64", "uint64", "float64"} -> 64
    [] kind \in {"int", "uint", "uintptr"} -> ptrBits

Orders == {"nil", "BigEndian", "LittleEndian", "NativeEndian"}

----------------------------------------------------------------------------
(* Go int arithmetic on offsets *)

IntOf(n) == [base |-> "zero", d |-> n]

\* a + n for a small n >= 0, wrapping from MaxInt to MinInt
IntAdd(a, n) ==
  CASE a.base = "zero" -> [base |-> "zero", d |-> a.d + n]
    [] a.base = "min" -> [base |-> "min", d |-> a.d + n]
    [] a.base = "max" ->
         IF a.d + n <= 0 THEN [base |-> "max", d |-> a.d + n]
         ELSE [base |-> "min", d |-> a.d + n - 1]

\* a > n for a small n
IntGT(a, n) ==
  CASE a.base = "zero" -> a.d > n
    [] a.base = "max" -> TRUE
    [] a.base = "min" -> FALSE

Rank(a) == CASE a.base = "min" -> 0 [] a.base = "zero" -> 1 [] a.base = "max" -> 2

\* a <= b
IntLE(a, b) == Rank(a) < Rank(b) \/ (Rank(a) = Rank(b) /\ a.d <= b.d)

Offsets ==
  {IntOf(n) : n \in (0 - MaxNeg)..(MaxLen + 1)}
    \cup {[base |-> "max", d |-> 0 - k] : k \in 0..MaxBack}
    \cup {[base |-> "min", d |-> 0]}

----------------------------------------------------------------------------
(* Values, errors and results *)

NoValue == [kind |-> "none", bits |-> <<>>]

\* *new(T)
Zero(kind) == [kind |-> kind, bits |-> [j \in 1..(Bits(kind) \div 8) |-> 0]]

NilErr == [type |-> "nil", kind |-> ""]
EOF == [type |-> "EOF", kind |-> ""]
NewErrUnknownKind(kind) == [type |-> "ErrUnknownKind", kind |-> kind]
IndexOutOfRange == [type |-> "runtime.Error", kind |-> "index out of range"]
SliceBoundsOutOfRange == [type |-> "runtime.Error", kind |-> "slice bounds out of range"]

Returns(v, e) == [val |-> v, err |-> e, panic |-> NilErr]
Panics(p) == [val |-> NoValue, err |-> NilErr, panic |-> p]
NotCalled == [val |-> NoValue, err |-> NilErr, panic |-> [type |-> "not called", kind |-> ""]]

----------------------------------------------------------------------------
(* encoding/binary byte orders, as ReadOrderedT and the tests use them *)

Reverse(b) == [j \in 1..Len(b) |-> b[Len(b) + 1 - j]]

\* does this ByteOrder place the least significant byte first
IsLittle(ord) == ord = "LittleEndian" \/ (ord = "NativeEndian" /\ nativeLE)

\* order.Uint16/Uint32/Uint64 on exactly n bytes: the digits of the
\* magnitude, least significant first
UintN(ord, b) == IF IsLittle(ord) THEN b ELSE Reverse(b)

\* order.PutUint16/PutUint32/PutUint64: the bytes written for the digits v
PutUintN(ord, v) == IF IsLittle(ord) THEN v ELSE Reverse(v)

\* order.UintN reads b[n-1] first and panics on a shorter slice
UintNPanics(n, b) == Len(b) < n

----------------------------------------------------------------------------
(* read.go *)

\* a nil order taken for binary.BigEndian
ResolveOrderNilBig(ord) == IF ord = "nil" THEN "BigEndian" ELSE ord

\* a nil order is binary.NativeEndian
ResolveOrder(ord) == IF ord = "nil" THEN "NativeEndian" ELSE ord

\* the bounds check written end >= len(buffer)
BoundsFailInclusive(end, buf) == IntGT(end, Len(buf) - 1)

\* end > len(buffer)
BoundsFail(end, buf) == IntGT(end, Len(buf))

\* buffer[offset]: the index expression panics outside 0..len-1
IndexInRange(off, buf) == off.base = "zero" /\ off.d >= 0 /\ off.d < Len(buf)

\* buffer[offset:end]: the slice expression panics unless
\* 0 <= offset <= end <= cap(buffer); end <= len(buffer) is known here
SliceInRange(off, end, buf) ==
  /\ off.base = "zero" /\ off.d >= 0
  /\ IntLE(off, end)
  /\ end.base = "zero" /\ end.d <= Len(buf)

Slice(off, end, buf) == SubSeq(buf, off.d + 1, end.d)

\* one multi-byte case of the switch: order.UintN(buffer[offset:end])
\* converted to T (the conversion keeps the bit pattern)
ReadWide(kind, n, ord, off, end, buf) ==
  IF ~SliceInRange(off, end, buf) THEN Panics(SliceBoundsOutOfRange)
  ELSE IF UintNPanics(n, Slice(off, end, buf)) THEN Panics(IndexOutOfRange)
  ELSE Returns([kind |-> kind, bits |-> UintN(ord, Slice(off, end, buf))], NilErr)

ReadOrderedT(kind, buf, off, ord) ==
  LET o == ResolveOrder(ord)
      zero == Zero(kind)
      size == Bits(kind) \div 8
      end == IntAdd(off, size)
  IN IF BoundsFail(end, buf) THEN Returns(zero, EOF)
     ELSE CASE kind \in {"int8", "uint8"} ->
                 IF IndexInRange(off, buf)
                 THEN Returns([kind |-> kind, bits |-> <<buf[off.d + 1]>>], NilErr)
                 ELSE Panics(IndexOutOfRange)
            [] kind \in {"int16", "uint16"} -> ReadWide(kind, 2, o, off, end, buf)
            [] kind \in {"int32", "uint32"} -> ReadWide(kind, 4, o, off, end, buf)
            [] kind \in {"int64", "uint64", "uintptr"} -> ReadWide(kind, 8, o, off, end, buf)
            [] kind = "float32" -> ReadWide(kind, 4, o, off, end, buf)
            [] kind = "float64" -> ReadWide(kind, 8, o, off, end, buf)
            [] OTHER -> Returns(zero, NewErrUnknownKind(kind))

\* a panic inside ReadOrderedT unwinds through the caller
MustReadOrderedT(kind, buf, off, ord) ==
  LET r == ReadOrderedT(kind, buf, off, ord)
  IN IF r.panic # NilErr THEN r
     ELSE IF r.err # NilErr THEN Panics(r.err)
     ELSE Returns(r.val, NilErr)

ReadT(kind, buf, off) == ReadOrderedT(kind, buf, off, "NativeEndian")

MustReadT(kind, buf, off) == MustReadOrderedT(kind, buf, off, "NativeEndian")

----------------------------------------------------------------------------
(* The build target and the inputs of one call *)

\* 64- and 32-bit targets, little- and big-endian hosts
Platform == (ptrBits = 64 \/ ptrBits = 32) /\ (nativeLE = TRUE \/ nativeLE = FALSE)

Init ==
  /\ Platform
  /\ T \in Kinds
  /\ buffer \in Buffers
  /\ offset \in Offsets
  /\ order \in Orders
  /\ want = NoValue
  /\ call = "none"
  /\ ret = NotCalled

\* values the tests encode: zero, all ones, the signed minimum and maximum,
\* and a pattern whose bytes all differ
Wants(kind) ==
  LET n == Bits(kind) \div 8
  IN {[kind |-> kind, bits |-> b] :
        b \in {[j \in 1..n |-> 0], [j \in 1..n |-> 255],
               [j \in 1..n |-> IF j = n THEN 128 ELSE 0],
               [j \in 1..n |-> IF j = n THEN 127 ELSE 255],
               SubSeq(Tape, 1, n)}}

\* uint64(want): the conversion the tests apply to a value of a
\* pointer-width type before writing it; it zero-extends an unsigned value
\* and sign-extends a signed one to 8 bytes
ToUint64(v) ==
  LET n == Len(v.bits)
      fill == IF v.kind \in SignedKinds /\ v.bits[n] >= 128 THEN 255 ELSE 0
  IN [j \in 1..8 |-> IF j <= n THEN v.bits[j] ELSE fill]

\* the bytes the tests write for want: PutUint16/PutUint32/PutUint64 of
\* the value's own width for the sized kinds, and PutUint64(buf,
\* uint64(want)) into 8 bytes for uintptr whatever the target's pointer
\* width; int and uint, which the tests leave out, are written as uintptr is
TestBuffer(ord, v) ==
  IF v.kind \in {"int", "uint", "uintptr"}
  THEN PutUintN(ord, ToUint64(v))
  ELSE PutUintN(ord, v.bits)

\* the tests' set-up: the value is written with the order the read uses
\* (binary.NativeEndian where the read passes nil) and read at the offset
\* it was written at; the tests write at offset 0, the padding moves the
\* same set-up to other offsets
InitRT ==
  /\ Platform
  /\ T \in Kinds
  /\ order \in Orders
  /\ want \in Wants(T)
  /\ \E n \in 0..Min(MaxPad, Len(Tape)) :
       /\ buffer = SubSeq(Tape, 1, n) \o TestBuffer(ResolveOrder(order), want)
       /\ offset = IntOf(n)
  /\ call = "none"
  /\ ret = NotCalled

CallReadOrderedT ==
  /\ call = "none"
  /\ call' = "ReadOrderedT"
  /\ ret' = ReadOrderedT(T, buffer, offset, order)
  /\ UNCHANGED <<ptrBits, nativeLE, T, buffer, offset, order, want>>

CallMustReadOrderedT ==
  /\ call = "none"
  /\ call' = "MustReadOrderedT"
  /\ ret' = MustReadOrderedT(T, buffer, offset, order)
  /\ UNCHANGED <<ptrBits, nativeLE, T, buffer, offset, order, want>>

CallReadT ==
  /\ call = "none"
  /\ call' = "ReadT"
  /\ ret' = ReadT(T, buffer, offset)
  /\ UNCHANGED <<ptrBits, nativeLE, T, buffer, offset, order, want>>

CallMustReadT ==
  /\ call = "none"
  /\ call' = "MustReadT"
  /\ ret' = MustReadT(T, buffer, offset)
  /\ UNCHANGED <<ptrBits, nativeLE, T, buffer, offset, order, want>>

Next == CallReadOrderedT \/ CallMustReadOrderedT \/ CallReadT \/ CallMustReadT

Spec == Init /\ [][Next]_vars

SpecRT == InitRT /\ [][Next]_vars

----------------------------------------------------------------------------
(* Vocabulary of the properties *)

\* the kinds the switch of ReadOrderedT has a case for
SupportedKinds ==
  {"int8", "uint8", "int16", "uint16", "int32", "uint32",
   "int64", "uint64", "uintptr", "float32", "float64"}

Width(kind) == Bits(kind) \div 8

\* offset + n > len over the unbounded integers
SumExceeds(off, n, len) ==
  \/ off.base = "max"
  \/ off.base = "zero" /\ off.d + n > len

\* offset + n > len with the sum computed in the machine's wrapping int
WrappedSumExceeds(off, n, len) ==
  \/ off.base = "max" /\ off.d + n <= 0
  \/ off.base = "zero" /\ off.d + n > len

IsNegative(off) == off.base = "min" \/ (off.base = "zero" /\ off.d < 0)

\* offset >= len
AtOrPastEnd(off, len) == off.base = "max" \/ (off.base = "zero" /\ off.d >= len)

\* 0 <= offset and offset + n <= len
InBounds(off, n, len) == off.base = "zero" /\ off.d >= 0 /\ off.d + n <= len

Succeeded(r) == r.panic = NilErr /\ r.err = NilErr
Failed(r) == r.panic = NilErr /\ r.err # NilErr

\* the digits of the window buffer[o:o+w], least significant first: the
\* digit of weight 256^j is buffer[o+w-1-j] big-endian, buffer[o+j]
\* little-endian
RefBits(little, buf, o, w) ==
  [j \in 1..w |-> IF little THEN buf[o + j] ELSE buf[o + w + 1 - j]]

\* the number a 1- or 2-byte value denotes
ValueOf(v) ==
  LET n == Len(v.bits)
      m == IF n = 1 THEN v.bits[1] ELSE v.bits[1] + 256 * v.bits[2]
      top == IF n = 1 THEN 128 ELSE 32768
  IN IF v.kind \in SignedKinds /\ m >= top THEN m - 2 * top ELSE m

----------------------------------------------------------------------------
(* Properties *)

\* C1: every read with offset + width(T) > len(buffer) returns io.EOF and
\* the zero value of T
ShortBufferIsEOF ==
  (call = "ReadOrderedT" /\ SumExceeds(offset, Width(T), Len(buffer)))
    => ret = Returns(Zero(T), EOF)

\* C2: every read at a negative offset returns io.EOF and never panics
NegativeOffsetIsEOF ==
  (call = "ReadOrderedT" /\ IsNegative(offset))
    => ret = Returns(Zero(T), EOF)

\* C3: round trip: reading back a value written with the same order at the
\* same offset returns exactly that value and no error
RoundTrip ==
  (call = "ReadOrderedT" /\ want # NoValue)
    => ret = Returns(want, NilErr)

\* C4: an in-bounds read of a 2-, 4- or 8-byte integer type returns the
\* magnitude of the window's bytes in the given order (two's complement
\* for signed types); 12 34 is 0x1234 big-endian and 0x3412 little-endian
WideIntegerIsReference ==
  (/\ call = "ReadOrderedT"
   /\ T \in SignedKinds \cup UnsignedKinds
   /\ Width(T) \in {2, 4, 8}
   /\ InBounds(offset, Width(T), Len(buffer)))
    => /\ Succeeded(ret)
       /\ ret.val.kind = T
       /\ ret.val.bits =
            RefBits(IsLittle(ResolveOrder(order)), buffer, offset.d, Width(T))
       /\ Width(T) = 2 =>
            LET hi == IF IsLittle(ResolveOrder(order))
                      THEN buffer[offset.d + 2] ELSE buffer[offset.d + 1]
                lo == IF IsLittle(ResolveOrder(order))
                      THEN buffer[offset.d + 1] ELSE buffer[offset.d + 2]
                m == 256 * hi + lo
            IN ValueOf(ret.val) =
                 IF T \in SignedKinds /\ m >= 32768 THEN m - 65536 ELSE m

\* C5: a read with no order, a read with binary.NativeEndian and ReadT
\* have the same outcome, and so have their Must forms
NoOrderIsNative ==
  /\ (call = "ReadOrderedT" /\ order = "nil")
       => /\ ret = ReadOrderedT(T, buffer, offset, "NativeEndian")
          /\ ret = ReadT(T, buffer, offset)
  /\ (call = "ReadT")
       => ret = ReadOrderedT(T, buffer, offset, "nil")
  /\ (call = "MustReadOrderedT" /\ order = "nil")
       => ret = MustReadT(T, buffer, offset)

\* C5 witness: a multi-byte read with no order succeeded on bytes whose
\* two orders give different values
NoOrderRead ==
  /\ call = "ReadOrderedT" /\ order = "nil"
  /\ Succeeded(ret)
  /\ Len(ret.val.bits) >= 2
  /\ ret.val.bits # Reverse(ret.val.bits)

\* C6: the Must form panics exactly when the fallible form returns an
\* error, with that error, and returns the same value otherwise
MustMirrorsRead ==
  /\ call = "MustReadOrderedT" =>
       LET r == ReadOrderedT(T, buffer, offset, order)
       IN /\ (ret.panic # NilErr) <=> Failed(r)
          /\ Failed(r) => ret.panic = r.err
          /\ Succeeded(r) => ret = Returns(r.val, NilErr)
  /\ call = "MustReadT" =>
       LET r == ReadOrderedT(T, buffer, offset, "NativeEndian")
       IN /\ (ret.panic # NilErr) <=> Failed(r)
          /\ Failed(r) => ret.panic = r.err
          /\ Succeeded(r) => ret = Returns(r.val, NilErr)

\* C7: no type the constraint admits gets ErrUnknownKind, and every
\* in-bounds read returns a value and no error
UnknownKindUnreachable ==
  call = "ReadOrderedT" =>
    /\ ret.err.type # "ErrUnknownKind"
    /\ InBounds(offset, Width(T), Len(buffer)) => Succeeded(ret)

\* C8 as claimed: a kind without a case fails with ErrUnknownKind for
\* every buffer and offset, whatever the buffer's length
UnknownKindWhateverLength ==
  (call = "ReadOrderedT" /\ T \notin SupportedKinds)
    => ret = Returns(Zero(T), NewErrUnknownKind(T))

\* C8 as amended: a kind without a case never panics; it fails with io.EOF
\* when the wrapped offset + width exceeds len(buffer), and otherwise with
\* ErrUnknownKind carrying the kind
UnknownKindAfterBounds ==
  (call = "ReadOrderedT" /\ T \notin SupportedKinds)
    => IF WrappedSumExceeds(offset, Width(T), Len(buffer))
       THEN ret = Returns(Zero(T), EOF)
       ELSE ret = Returns(Zero(T), NewErrUnknownKind(T))

\* C8 witness: a read of int or uint whose window fits exactly got
\* ErrUnknownKind
UnknownKindReturned ==
  /\ call = "ReadOrderedT" /\ T \notin SupportedKinds
  /\ offset.base = "zero" /\ offset.d + Width(T) = Len(buffer)
  /\ ret.err = NewErrUnknownKind(T)

\* C9: an in-bounds read of uintptr takes exactly ptrBits/8 bytes and
\* returns their unsigned value, on a 32-bit as on a 64-bit target
UintptrAtPointerWidth ==
  (/\ call = "ReadOrderedT" /\ T = "uintptr"
   /\ InBounds(offset, ptrBits \div 8, Len(buffer)))
    => /\ Succeeded(ret)
       /\ ret.val.bits =
            RefBits(IsLittle(ResolveOrder(order)), buffer, offset.d, ptrBits \div 8)

\* C10: every read at an offset >= len(buffer), however large, returns
\* io.EOF, and the Must form panics with io.EOF
OffsetPastEndIsEOF ==
  /\ (call = "ReadOrderedT" /\ AtOrPastEnd(offset, Len(buffer)))
       => ret = Returns(Zero(T), EOF)
  /\ (call = "MustReadOrderedT" /\ AtOrPastEnd(offset, Len(buffer)))
       => ret = Panics(EOF)

----------------------------------------------------------------------------
(* What the code does guarantee around the failing cases: each statement   *)
(* above that the code violates holds once the inputs that reach the       *)
(* defect are set aside.  These hold under Spec (the second under SpecRT). *)

\* the kinds whose case of the switch decodes the width Bits() reports
HandledKind == T \in SupportedKinds /\ ~(T = "uintptr" /\ ptrBits = 32)

\* C1 where offset + width does not wrap: io.EOF and the zero value
ShortBufferIsEOFUnlessWrapped ==
  (call = "ReadOrderedT" /\ WrappedSumExceeds(offset, Width(T), Len(buffer)))
    => ret = Returns(Zero(T), EOF)

\* C3 for the handled kinds: the round trip returns the written value
RoundTripOfHandledKinds == HandledKind => RoundTrip

\* C4 for the handled kinds: the result is the reference magnitude
WideIntegerOfHandledKinds == HandledKind => WideIntegerIsReference

\* C6 whenever ReadOrderedT returns: the Must form mirrors it
MustMirrorsReturnedRead ==
  (/\ ReadOrderedT(T, buffer, offset, order).panic = NilErr
   /\ ReadOrderedT(T, buffer, offset, "NativeEndian").panic = NilErr)
    => MustMirrorsRead

\* C9 on a 64-bit target
UintptrOn64Bit == ptrBits = 64 => UintptrAtPointerWidth

\* C10 for offsets that are not within a width of MaxInt
OffsetPastEndIsEOFUnlessWrapped == offset.base = "zero" => OffsetPastEndIsEOF

====
